---------------------------- MODULE Spec2Model ----------------------------
(***************************************************************************)
(* Model of the jarvis-rag backend: the RAG orchestration graph            *)
(* (rag/graph_chat.py), the page ingestor and URL extractor                *)
(* (rag/url_tools.py) and the vector-store singleton (rag/retriever.py).   *)
(*                                                                         *)
(* Text is modelled as a sequence of whitespace-separated tokens.  A token *)
(* of a query is a record [pre, scheme, host, path]: the characters before *)
(* a "scheme://" (if any), the scheme, the network location and the rest.  *)
(* A language-model answer is a sequence of words, with letter case kept.  *)
(* External collaborators (HTTP, Chroma, the embedding model, the language *)
(* model) answer nondeterministically, failure included.                   *)
(***************************************************************************)
EXTENDS Integers, Sequences, FiniteSets, TLC

(***************************************************************************)
(* Bounds of the model.                                                    *)
(***************************************************************************)
MaxIndex == 2        \* most documents the vector index holds
MaxLen == 3          \* most tokens of a text given to extract_urls alone

(***************************************************************************)
(* Program constants.                                                      *)
(***************************************************************************)
RELEVANCE_THRESHOLD == 5   \* 0.5, distances counted in tenths
SEARCH_K == 5              \* k of similarity_search_with_score
RETRIEVER_K == 5           \* default k of get_retriever
MIN_CONTENT == 50          \* shortest page text that is ingested
CHUNK_SIZE == 1000
CHUNK_OVERLAP == 200

\* The threads of the process: the event loop, which serves the chat
\* requests, and one more caller.
Threads == {"t1", "t2"}
Workers == {"t1"}

(***************************************************************************)
(* Query tokens.                                                           *)
(***************************************************************************)
Tok(pre, scheme, host, path) ==
    [pre |-> pre, scheme |-> scheme, host |-> host, path |-> path]

TokWord   == Tok("what", "", "", "")              \* what
TokU1     == Tok("", "https", "a.b", "/c")        \* https://a.b/c
TokU2     == Tok("", "http", "x.y", "")           \* http://x.y
TokNoHost == Tok("", "http", "", "/p")            \* http:///p
TokFtp    == Tok("", "ftp", "x", "")              \* ftp://x
TokPreU1  == Tok("see:", "https", "a.b", "/c")    \* see:https://a.b/c
TokBadV6  == Tok("", "http", "[bad", "")          \* http://[bad
TokPort   == Tok("", "http", ":80", "/x")         \* http://:80/x

Tokens == {TokWord, TokU1, TokU2, TokNoHost, TokFtp, TokPreU1, TokBadV6, TokPort}

\* The texts of at most MaxLen tokens, the empty text included.
Texts == UNION { [1..n -> Tokens] : n \in 0..MaxLen }

Queries ==
    { <<TokWord, TokFtp>>,
      <<TokWord, TokU1>>,
      <<TokU1, TokNoHost, TokBadV6, TokU2>>,
      <<TokPreU1, TokU1>> }

(***************************************************************************)
(* URL strings: the text "scheme://host path".                             *)
(***************************************************************************)
Url(scheme, host, path) == [scheme |-> scheme, host |-> host, path |-> path]

U1 == Url("https", "a.b", "/c")
U2 == Url("http", "x.y", "")
Urls == {U1, U2}

\* URL_PATTERN = https?://\S+ : the match inside one token, <<>> when none.
\* The match starts at the scheme (a prefix is skipped) and needs at least
\* one non-blank character after "://".
URL_PATTERN_find(tok) ==
    IF tok.scheme \in {"http", "https"} /\ (tok.host # "" \/ tok.path # "")
    THEN <<Url(tok.scheme, tok.host, tok.path)>>
    ELSE <<>>

RECURSIVE URL_PATTERN_findall(_)
URL_PATTERN_findall(text) ==
    IF text = <<>> THEN <<>>
    ELSE URL_PATTERN_find(Head(text)) \o URL_PATTERN_findall(Tail(text))

\* urlparse: raises ValueError on an unbalanced bracket in the netloc.
\* The netloc is the text between "://" and the next "/": user, host and
\* port; the hostname is its host part, empty when only a port is given.
BadNetlocs == {"[bad"}
urlparse_raises(url) == url.host \in BadNetlocs
hostname(netloc) == IF netloc = ":80" THEN "" ELSE netloc
urlparse(url) ==
    [scheme |-> url.scheme, netloc |-> url.host, hostname |-> hostname(url.host)]

UrlValid(url) ==
    /\ ~urlparse_raises(url)
    /\ urlparse(url).scheme \in {"http", "https"}
    /\ urlparse(url).netloc # ""

RECURSIVE FilterValid(_)
FilterValid(urls) ==
    IF urls = <<>> THEN <<>>
    ELSE (IF UrlValid(Head(urls)) THEN <<Head(urls)>> ELSE <<>>)
         \o FilterValid(Tail(urls))

extract_urls(text) == FilterValid(URL_PATTERN_findall(text))

get_url_hash(url) == <<"md5", url>>

(***************************************************************************)
(* Page ingestion: pure parts of ingest_url.                               *)
(***************************************************************************)
\* What requests.get and extract_text_from_html yield for a page: a
\* transport or status error, or a text of some length.
HttpResponses ==
    { [ok |-> FALSE, len |-> 0],
      [ok |-> TRUE,  len |-> 49],
      [ok |-> TRUE,  len |-> 50],
      [ok |-> TRUE,  len |-> 1200] }

AlreadyIngestedNever(force, url_hash, cache) == FALSE
AlreadyIngestedIgnoringForce(force, url_hash, cache) == url_hash \in cache
AlreadyIngested(force, url_hash, cache) == ~force /\ url_hash \in cache

InsufficientContentOffByOne(len) == len + 1 < MIN_CONTENT
InsufficientContent(len) == len < MIN_CONTENT

\* Number of chunks of splitter.split_text for a text of the given length
\* (character-level splitting: each further chunk adds size - overlap).
ChunkCount(len) ==
    IF len <= CHUNK_SIZE THEN 1
    ELSE 1 + ((len - CHUNK_SIZE) + (CHUNK_SIZE - CHUNK_OVERLAP) - 1)
                 \div (CHUNK_SIZE - CHUNK_OVERLAP)

Doc(url, i, n) ==
    [source |-> url, url_hash |-> get_url_hash(url),
     chunk_index |-> i, total_chunks |-> n]

MakeDocs(url, n) == [k \in 1..n |-> Doc(url, k - 1, n)]

\* vectorstore.add_documents(docs): the collection after a successful call.
add_documents_lost(coll, docs) == coll
add_documents(coll, docs) == coll \o docs

\* _ingested_urls after the storing part of the call: line 113 is reached
\* only when add_documents and persist have returned.
ingested_after_always(cache, url_hash, stored) == cache \cup {url_hash}
ingested_after(cache, url_hash, stored) ==
    IF stored THEN cache \cup {url_hash} ELSE cache

(***************************************************************************)
(* Retrieval: pure parts of rag_query_node.                                *)
(***************************************************************************)
Distances == {3, 5, 7}     \* 0.3, 0.5, 0.7

Min(a, b) == IF a < b THEN a ELSE b

\* Position of the nearest document among S (ties: the older document).
Nearest(S, sc) ==
    CHOOSE p \in S : \A q \in S : sc[p] < sc[q] \/ (sc[p] = sc[q] /\ p <= q)

RECURSIVE Ranked(_, _)
Ranked(S, sc) ==
    IF S = {} THEN <<>>
    ELSE <<Nearest(S, sc)>> \o Ranked(S \ {Nearest(S, sc)}, sc)

\* similarity_search_with_score(query, k): the k nearest documents with
\* their distances, nearest first.
similarity_search_with_score(coll, sc, k) ==
    [j \in 1..Min(k, Len(coll)) |->
        [doc |-> coll[Ranked(1..Len(coll), sc)[j]],
         score |-> sc[Ranked(1..Len(coll), sc)[j]]]]

is_relevant_inclusive(score) == score <= RELEVANCE_THRESHOLD
is_relevant_always(score) == TRUE
is_relevant(score) == score < RELEVANCE_THRESHOLD

relevant_docs_unfiltered(docs_with_scores) == docs_with_scores
RECURSIVE relevant_docs(_)
relevant_docs(docs_with_scores) ==
    IF docs_with_scores = <<>> THEN <<>>
    ELSE (IF is_relevant(Head(docs_with_scores).score)
          THEN <<Head(docs_with_scores)>> ELSE <<>>)
         \o relevant_docs(Tail(docs_with_scores))

\* get_retriever().get_relevant_documents(query): the k nearest documents,
\* whatever their distance.
retriever_docs(coll, sc, k) ==
    [j \in 1..Min(k, Len(coll)) |-> similarity_search_with_score(coll, sc, k)[j].doc]

SourcesOf(docs) == { docs[j].source : j \in 1..Len(docs) }

(***************************************************************************)
(* Language-model answers and the refusal check.                           *)
(***************************************************************************)
Answers ==
    { <<"The", "answer", "is", "here">>,
      <<"I", "Cannot", "find", "it">>,
      <<"no", "answer", "information">> }

lower(w) ==
    CASE w = "The" -> "the"
      [] w = "I" -> "i"
      [] w = "Cannot" -> "cannot"
      [] OTHER -> w

LowerText(text) == [j \in 1..Len(text) |-> lower(text[j])]

no_info_phrases ==
    { <<"don't", "have", "enough", "information">>,
      <<"don't", "have", "information">>,
      <<"context", "doesn't", "contain">>,
      <<"not", "mentioned", "in">>,
      <<"cannot", "find">>,
      <<"no", "information">> }

Contains(text, phrase) ==
    \E j \in 1..Len(text) :
        /\ j + Len(phrase) - 1 <= Len(text)
        /\ SubSeq(text, j, j + Len(phrase) - 1) = phrase

has_no_info_case_sensitive(answer) ==
    \E phrase \in no_info_phrases : Contains(answer, phrase)
has_no_info(answer) ==
    \E phrase \in no_info_phrases : Contains(LowerText(answer), phrase)

\* One call of the language model: it fails, or it returns some text.
LlmOutcomes ==
    {[ok |-> FALSE, text |-> <<>>]} \cup {[ok |-> TRUE, text |-> a] : a \in Answers}

\* The prompts: "Answer this question conversationally: {query}" and the
\* context prompt of the RetrievalQA chain.
UngroundedPrompt(query) ==
    [kind |-> "ungrounded", question |-> query, context |-> <<>>]
GroundedPrompt(query, docs) ==
    [kind |-> "grounded", question |-> query, context |-> docs]

LlmCall(prompt, out) ==
    [kind |-> prompt.kind, question |-> prompt.question,
     context |-> prompt.context, ok |-> out.ok, text |-> out.text]

(***************************************************************************)
(* State.                                                                  *)
(***************************************************************************)
VARIABLES
    ingested,    \* _ingested_urls: hashes of the URLs recorded as ingested
    instance,    \* _vectorstore_instance: "None" or the Chroma handle
    index,       \* the documents of the Chroma collection, oldest first
    handles,     \* number of Chroma handles built and not yet dropped
    last,        \* summary of the last ingest_url call that ended
    pc,          \* per thread: where it is
    op,          \* per thread: the top-level call it serves
    st,          \* per thread: the ChatState of its request
    frame,       \* per thread: the locals of its ingest_url call
    idx,         \* per thread: position of ingest_node's loop in st.urls
    attempts,    \* per thread: the ingest_url calls made for its request
    trace,       \* per thread: the graph nodes its request has run
    obs,         \* per thread: what rag_query_node has seen so far
    llmlog,      \* per thread: the language-model calls of its request
    err,         \* per thread: the exception that left the top-level call
    response     \* per thread: the HTTP response the chat endpoint has built

globals == <<ingested, instance, handles, index, last>>
locals  == <<pc, op, st, frame, idx, attempts, trace, obs, llmlog, err, response>>
vars    == <<ingested, instance, handles, index, last,
             pc, op, st, frame, idx, attempts, trace, obs, llmlog, err, response>>

NoUrl == Url("", "", "")
NoResp == [ok |-> FALSE, len |-> 0]

NoState ==
    [query |-> <<>>, urls |-> <<>>, answer |-> <<>>, sources |-> {},
     used_rag |-> FALSE]

NoFrame ==
    [url |-> NoUrl, force |-> FALSE, caller |-> "none", fetched |-> FALSE,
     resp |-> NoResp, docs |-> <<>>, n0 |-> 0, cache0 |-> {}]

NoCall ==
    [valid |-> FALSE, url |-> NoUrl, force |-> FALSE, wasIn |-> FALSE,
     fetched |-> FALSE, resp |-> NoResp, outcome |-> "none", result |-> <<>>,
     inserted |-> 0, cacheSame |-> TRUE]

NoResponse ==
    [status |-> "none", answer |-> <<>>, sources |-> {}, used_rag |-> FALSE]

NoObs ==
    [search |-> "none", scores |-> <<>>, hits |-> <<>>, relevant |-> <<>>,
     retrieved |-> <<>>, grounded |-> FALSE, candidate |-> <<>>]

Init ==
    /\ ingested = {}
    /\ instance = "None"
    /\ handles = 0
    /\ index = <<>>
    /\ last = NoCall
    /\ pc = [t \in Threads |-> "idle"]
    /\ op = [t \in Threads |-> "none"]
    /\ st = [t \in Threads |-> NoState]
    /\ frame = [t \in Threads |-> NoFrame]
    /\ idx = [t \in Threads |-> 0]
    /\ attempts = [t \in Threads |-> <<>>]
    /\ trace = [t \in Threads |-> <<>>]
    /\ obs = [t \in Threads |-> NoObs]
    /\ llmlog = [t \in Threads |-> <<>>]
    /\ err = [t \in Threads |-> "none"]
    /\ response = [t \in Threads |-> NoResponse]

(***************************************************************************)
(* retriever.py                                                            *)
(***************************************************************************)
\* get_vectorstore(): the handle is built on first use; building it may
\* fail, and then nothing is cached.  The set of possible outcomes.
\* `built` is the number of Chroma objects the call has constructed.
get_vectorstore(inst) ==
    IF inst # "None"
    THEN {[ok |-> TRUE, inst |-> inst, built |-> 0]}
    ELSE {[ok |-> TRUE, inst |-> "Chroma", built |-> 1],
          [ok |-> FALSE, inst |-> "None", built |-> 0]}

\* reset_vectorstore(): the global is cleared and the handle it held is
\* dropped.
reset_vectorstore ==
    /\ instance' = "None"
    /\ handles' = 0
    /\ UNCHANGED <<ingested, index, last>>
    /\ UNCHANGED locals

(***************************************************************************)
(* main.py: the health endpoint, which calls get_vectorstore() on a thread *)
(* of the pool.  Here get_vectorstore is taken statement by statement: the *)
(* test of the global, then the construction and the assignment.           *)
(***************************************************************************)
health(t) ==
    /\ pc[t] = "idle"
    /\ op' = [op EXCEPT ![t] = "health"]
    /\ pc' = [pc EXCEPT ![t] = "gv_check"]
    /\ UNCHANGED <<globals, st, frame, idx, attempts, trace, obs, llmlog, err,
                   response>>

\* Line 18: `if _vectorstore_instance is None`.
get_vectorstore_check(t) ==
    /\ pc[t] = "gv_check"
    /\ pc' = [pc EXCEPT ![t] = IF instance = "None" THEN "gv_build" ELSE "done"]
    /\ UNCHANGED <<globals, op, st, frame, idx, attempts, trace, obs, llmlog,
                   err, response>>

\* Lines 19-25: Chroma(...) is constructed and assigned to the global, or
\* the constructor raises and health answers 503.
get_vectorstore_build(t) ==
    /\ pc[t] = "gv_build"
    /\ \/ /\ instance' = "Chroma"
          /\ handles' = handles + 1
          /\ pc' = [pc EXCEPT ![t] = "done"]
          /\ err' = err
       \/ /\ UNCHANGED <<instance, handles>>
          /\ pc' = [pc EXCEPT ![t] = "raised"]
          /\ err' = [err EXCEPT ![t] = "vectorstore_init_error"]
    /\ UNCHANGED <<ingested, index, last>>
    /\ UNCHANGED <<op, st, frame, idx, attempts, trace, obs, llmlog, response>>

(***************************************************************************)
(* url_tools.py: ingest_url                                                *)
(***************************************************************************)
EnterIngest(t, url, force, caller) ==
    /\ frame' = [frame EXCEPT ![t] =
                    [url |-> url, force |-> force, caller |-> caller,
                     fetched |-> FALSE, resp |-> NoResp, docs |-> <<>>,
                     n0 |-> Len(index), cache0 |-> ingested]]
    /\ pc' = [pc EXCEPT ![t] = "ing_check"]

Summary(fr, outcome, result, index1, cache1) ==
    [valid |-> TRUE, url |-> fr.url, force |-> fr.force,
     wasIn |-> get_url_hash(fr.url) \in fr.cache0,
     fetched |-> fr.fetched, resp |-> fr.resp, outcome |-> outcome,
     result |-> result, inserted |-> Len(index1) - fr.n0,
     cacheSame |-> (cache1 = fr.cache0)]

\* What ingest_node does with an exception of ingest_url: it logs it and
\* goes on with the next URL.
ingest_node_reraise == "raised"
ingest_node_abort == "rag_query"
ingest_node_except == "ingest_loop"

\* ingest_url ends with `outcome` ("ok" and "skip" return, the others
\* raise): control goes back to ingest_node's loop or to the direct caller.
\* The call is added to the calls the thread has made for its request.
ExitIngest(t, fr, outcome, result) ==
    /\ last' = Summary(fr, outcome, result, index', ingested')
    /\ frame' = [frame EXCEPT ![t] = NoFrame]
    /\ attempts' = [attempts EXCEPT ![t] = Append(@,
                       [url |-> fr.url, force |-> fr.force,
                        wasIn |-> get_url_hash(fr.url) \in fr.cache0,
                        outcome |-> outcome,
                        chunks |-> Len(result)])]
    /\ IF fr.caller = "node"
       THEN /\ idx' = [idx EXCEPT ![t] = @ + 1]
            /\ IF outcome \in {"ok", "skip"}
               THEN pc' = [pc EXCEPT ![t] = "ingest_loop"] /\ err' = err
               ELSE /\ pc' = [pc EXCEPT ![t] = ingest_node_except]
                    /\ err' = [err EXCEPT ![t] =
                                 IF ingest_node_except = "raised"
                                 THEN outcome ELSE @]
       ELSE /\ pc' = [pc EXCEPT ![t] =
                        IF outcome \in {"ok", "skip"} THEN "done" ELSE "raised"]
            /\ err' = [err EXCEPT ![t] =
                        IF outcome \in {"ok", "skip"} THEN "none" ELSE outcome]
            /\ idx' = idx

\* A direct call ingest_url(url, force).
IngestUrlCall(t, url, force) ==
    /\ pc[t] = "idle"
    /\ op' = [op EXCEPT ![t] = "ingest_url"]
    /\ EnterIngest(t, url, force, "direct")
    /\ UNCHANGED <<globals, st, idx, attempts, trace, obs, llmlog, err>>
    /\ UNCHANGED response

\* Lines 60-65: the hash and the "already ingested" test.
IngestCheck(t) ==
    /\ pc[t] = "ing_check"
    /\ IF AlreadyIngested(frame[t].force, get_url_hash(frame[t].url), ingested)
       THEN /\ UNCHANGED <<ingested, instance, handles, index>>
            /\ ExitIngest(t, frame[t], "skip", <<>>)
       ELSE /\ pc' = [pc EXCEPT ![t] = "ing_fetch"]
            /\ UNCHANGED <<globals, frame, idx, attempts, err>>
    /\ UNCHANGED <<op, st, trace, obs, llmlog>>
    /\ UNCHANGED response

\* Lines 67-105: the fetch, the text, its length test and the chunks.
IngestFetch(t) ==
    /\ pc[t] = "ing_fetch"
    /\ UNCHANGED <<ingested, instance, handles, index>>
    /\ \E resp \in HttpResponses :
         LET fr == [frame[t] EXCEPT !.fetched = TRUE, !.resp = resp] IN
         /\ (resp.ok /\ ~InsufficientContent(resp.len))
               => Len(index) + ChunkCount(resp.len) <= MaxIndex
         /\ IF ~resp.ok
            THEN ExitIngest(t, fr, "fetch_error", <<>>)
            ELSE IF InsufficientContent(resp.len)
            THEN ExitIngest(t, fr, "processing_error", <<>>)
            ELSE /\ frame' = [frame EXCEPT ![t] =
                       [fr EXCEPT !.docs = MakeDocs(fr.url, ChunkCount(resp.len))]]
                 /\ pc' = [pc EXCEPT ![t] = "ing_store"]
                 /\ UNCHANGED <<last, idx, attempts, err>>
    /\ UNCHANGED <<op, st, trace, obs, llmlog>>
    /\ UNCHANGED response

\* Lines 107-116: get_vectorstore, add_documents (`added`), persist
\* (`written`), then the hash is recorded and the documents are returned.
\* A failed persist leaves the documents in the collection.
IngestStore(t) ==
    /\ pc[t] = "ing_store"
    /\ \E vs \in get_vectorstore(instance), added \in BOOLEAN, written \in BOOLEAN :
         /\ instance' = vs.inst
         /\ handles' = handles + vs.built
         /\ ingested' = ingested_after(ingested, get_url_hash(frame[t].url),
                                        vs.ok /\ added /\ written)
         /\ IF ~vs.ok \/ ~added
            THEN /\ UNCHANGED index
                 /\ ExitIngest(t, frame[t], "processing_error", <<>>)
            ELSE IF ~written
            THEN /\ index' = add_documents(index, frame[t].docs)
                 /\ ExitIngest(t, frame[t], "processing_error", <<>>)
            ELSE /\ index' = add_documents(index, frame[t].docs)
                 /\ ExitIngest(t, frame[t], "ok", frame[t].docs)
    /\ UNCHANGED <<op, st, trace, obs, llmlog>>
    /\ UNCHANGED response

clear_ingestion_cache ==
    /\ ingested' = {}
    /\ last' = NoCall
    /\ UNCHANGED <<instance, handles, index>>
    /\ UNCHANGED locals

(***************************************************************************)
(* graph_chat.py: the graph of run_chat                                    *)
(***************************************************************************)
\* run_chat(query): the initial ChatState enters the graph at classify.
run_chat(t, query) ==
    /\ pc[t] = "idle"
    /\ op' = [op EXCEPT ![t] = "run_chat"]
    /\ st' = [st EXCEPT ![t] =
                [query |-> query, urls |-> <<>>, answer |-> <<>>,
                 sources |-> {}, used_rag |-> FALSE]]
    /\ pc' = [pc EXCEPT ![t] = "classify"]
    /\ UNCHANGED <<globals, frame, idx, attempts, trace, obs, llmlog, err>>
    /\ UNCHANGED response

route_classify_no_ingest(state) == "rag_query"
route_classify(state) ==
    IF state.urls # <<>> THEN "ingest" ELSE "rag_query"

classify_node(t) ==
    /\ pc[t] = "classify"
    /\ LET state == [st[t] EXCEPT !.urls = extract_urls(st[t].query),
                                  !.sources = {},
                                  !.used_rag = FALSE] IN
         /\ st' = [st EXCEPT ![t] = state]
         /\ pc' = [pc EXCEPT ![t] = route_classify(state)]
    /\ trace' = [trace EXCEPT ![t] = Append(@, "classify")]
    /\ UNCHANGED <<globals, op, frame, idx, attempts, obs, llmlog, err>>
    /\ UNCHANGED response

\* ingest_node: entry, then one ingest_url(url) per element of state.urls.
ingest_node(t) ==
    /\ pc[t] = "ingest"
    /\ trace' = [trace EXCEPT ![t] = Append(@, "ingest")]
    /\ idx' = [idx EXCEPT ![t] = 1]
    /\ pc' = [pc EXCEPT ![t] = "ingest_loop"]
    /\ UNCHANGED <<globals, op, st, frame, attempts, obs, llmlog, err>>
    /\ UNCHANGED response

ingest_node_loop(t) ==
    /\ pc[t] = "ingest_loop"
    /\ IF idx[t] <= Len(st[t].urls)
       THEN EnterIngest(t, st[t].urls[idx[t]], FALSE, "node")
       ELSE /\ pc' = [pc EXCEPT ![t] = "rag_query"]
            /\ frame' = frame
    /\ UNCHANGED <<globals, op, st, idx, attempts, trace, obs, llmlog, err>>
    /\ UNCHANGED response

\* Where a rag_query_node step goes when the statement it runs raises
\* inside the try block: to the except clause.
rag_try_reraise == "raised"
rag_try_except == "rag_except"

\* Lines 61-62: get_llm() and get_vectorstore(), outside the try block.
rag_query_node(t) ==
    /\ pc[t] = "rag_query"
    /\ trace' = [trace EXCEPT ![t] = Append(@, "rag_query")]
    /\ \E llm \in BOOLEAN, vs \in get_vectorstore(instance) :
         /\ instance' = IF llm THEN vs.inst ELSE instance
         /\ handles' = IF llm THEN handles + vs.built ELSE handles
         /\ IF ~llm
            THEN /\ pc' = [pc EXCEPT ![t] = "raised"]
                 /\ err' = [err EXCEPT ![t] = "llm_init_error"]
            ELSE IF ~vs.ok
            THEN /\ pc' = [pc EXCEPT ![t] = "raised"]
                 /\ err' = [err EXCEPT ![t] = "vectorstore_init_error"]
            ELSE /\ pc' = [pc EXCEPT ![t] = "rag_search"]
                 /\ err' = err
    /\ UNCHANGED <<ingested, index, last>>
    /\ UNCHANGED <<op, st, frame, idx, attempts, obs, llmlog>>
    /\ UNCHANGED response

\* Lines 65-77 and 135: the scored search and the relevance filter.
rag_search(t) ==
    /\ pc[t] = "rag_search"
    /\ \/ /\ obs' = [obs EXCEPT ![t].search = "fail"]
          /\ pc' = [pc EXCEPT ![t] = rag_try_except]
          /\ err' = [err EXCEPT ![t] =
                       IF rag_try_except = "raised" THEN "search_error" ELSE @]
       \/ \E sc \in [1..Len(index) -> Distances] :
            LET hits == similarity_search_with_score(index, sc, SEARCH_K)
                rel  == relevant_docs(hits) IN
            /\ obs' = [obs EXCEPT ![t].search = "ok", ![t].scores = sc,
                                  ![t].hits = hits, ![t].relevant = rel]
            /\ pc' = [pc EXCEPT ![t] =
                        IF rel # <<>> THEN "rag_qa" ELSE "rag_nodocs"]
            /\ err' = err
    /\ UNCHANGED <<globals, op, st, frame, idx, attempts, trace, llmlog>>
    /\ UNCHANGED response

\* llm.invoke("Answer this question conversationally: ...") and the three
\* assignments after it; `handler` is where an exception of the call goes.
ungrounded_answer(t, handler) ==
    \E out \in LlmOutcomes :
      /\ llmlog' = [llmlog EXCEPT ![t] =
                      Append(@, LlmCall(UngroundedPrompt(st[t].query), out))]
      /\ IF out.ok
         THEN /\ st' = [st EXCEPT ![t].answer = out.text,
                                  ![t].used_rag = FALSE,
                                  ![t].sources = {}]
              /\ pc' = [pc EXCEPT ![t] = "done"]
              /\ err' = err
         ELSE /\ st' = st
              /\ pc' = [pc EXCEPT ![t] = handler]
              /\ err' = [err EXCEPT ![t] =
                           IF handler = "raised" THEN "llm_error" ELSE @]

\* The documents the RetrievalQA chain puts in its prompt and returns as
\* source_documents: those of get_retriever().
qa_context(coll, sc, rel) == retriever_docs(coll, sc, RETRIEVER_K)

\* Lines 77-134: the RetrievalQA chain over get_retriever(), the refusal
\* check on its answer, and the grounded result.
rag_qa(t) ==
    /\ pc[t] = "rag_qa"
    /\ \/ /\ pc' = [pc EXCEPT ![t] = rag_try_except]
          /\ err' = [err EXCEPT ![t] =
                       IF rag_try_except = "raised" THEN "search_error" ELSE @]
          /\ UNCHANGED <<st, obs, llmlog>>
       \/ \E out \in LlmOutcomes, sc \in [1..Len(index) -> Distances] :
            LET docs == qa_context(index, sc, obs[t].relevant) IN
            /\ \A p \in DOMAIN obs[t].scores :
                  p \in DOMAIN sc /\ sc[p] = obs[t].scores[p]
            /\ llmlog' = [llmlog EXCEPT ![t] =
                  Append(@, LlmCall(GroundedPrompt(st[t].query, docs), out))]
            /\ IF ~out.ok
               THEN /\ pc' = [pc EXCEPT ![t] = rag_try_except]
                    /\ err' = [err EXCEPT ![t] =
                         IF rag_try_except = "raised" THEN "llm_error" ELSE @]
                    /\ obs' = [obs EXCEPT ![t].retrieved = docs]
                    /\ st' = st
               ELSE /\ obs' = [obs EXCEPT ![t].retrieved = docs,
                                          ![t].grounded = TRUE,
                                          ![t].candidate = out.text]
                    /\ err' = err
                    /\ IF has_no_info(out.text)
                       THEN /\ pc' = [pc EXCEPT ![t] = "rag_refused"]
                            /\ st' = st
                       ELSE /\ pc' = [pc EXCEPT ![t] = "done"]
                            /\ st' = [st EXCEPT ![t].answer = out.text,
                                                ![t].used_rag = TRUE,
                                                ![t].sources = SourcesOf(docs)]
    /\ UNCHANGED <<globals, op, frame, idx, attempts, trace>>
    /\ UNCHANGED response

\* Lines 120-127: the answer refused, the general completion instead.
rag_refused(t) ==
    /\ pc[t] = "rag_refused"
    /\ ungrounded_answer(t, rag_try_except)
    /\ UNCHANGED <<globals, op, frame, idx, attempts, trace, obs>>
    /\ UNCHANGED response

\* Lines 135-142: no document passed the filter.
rag_nodocs(t) ==
    /\ pc[t] = "rag_nodocs"
    /\ ungrounded_answer(t, rag_try_except)
    /\ UNCHANGED <<globals, op, frame, idx, attempts, trace, obs>>
    /\ UNCHANGED response

\* Lines 144-151: the except clause; an exception here leaves run_chat.
rag_except(t) ==
    /\ pc[t] = "rag_except"
    /\ ungrounded_answer(t, "raised")
    /\ UNCHANGED <<globals, op, frame, idx, attempts, trace, obs>>
    /\ UNCHANGED response

(***************************************************************************)
(* main.py: the chat endpoint                                              *)
(***************************************************************************)
\* ChatResponse(answer=result.get("answer", ""),
\*              sources=result.get("sources", []), status="success"):
\* used_rag is not passed and takes the default of the class.
ChatResponse(result) ==
    [status |-> "success", answer |-> result.answer,
     sources |-> result.sources, used_rag |-> FALSE]

\* An exception of run_chat becomes an HTTP error without a result.
HTTPException ==
    [status |-> "error", answer |-> <<>>, sources |-> {}, used_rag |-> FALSE]

\* chat(req), after run_chat has returned or raised: the response.
chat(t) ==
    /\ op[t] = "run_chat"
    /\ pc[t] \in {"done", "raised"}
    /\ response[t] = NoResponse
    /\ response' = [response EXCEPT ![t] =
                       IF pc[t] = "done" THEN ChatResponse(st[t])
                       ELSE HTTPException]
    /\ UNCHANGED <<globals, pc, op, st, frame, idx, attempts, trace, obs,
                   llmlog, err>>

\* The top-level call has returned or raised; its caller drops the result.
Return(t) ==
    /\ pc[t] \in {"done", "raised"}
    /\ pc' = [pc EXCEPT ![t] = "idle"]
    /\ op' = [op EXCEPT ![t] = "none"]
    /\ st' = [st EXCEPT ![t] = NoState]
    /\ idx' = [idx EXCEPT ![t] = 0]
    /\ attempts' = [attempts EXCEPT ![t] = <<>>]
    /\ trace' = [trace EXCEPT ![t] = <<>>]
    /\ obs' = [obs EXCEPT ![t] = NoObs]
    /\ llmlog' = [llmlog EXCEPT ![t] = <<>>]
    /\ err' = [err EXCEPT ![t] = "none"]
    /\ response' = [response EXCEPT ![t] = NoResponse]
    /\ UNCHANGED <<globals, frame>>

(***************************************************************************)
(* The specification.  The chat endpoint is a coroutine that calls         *)
(* run_chat without awaiting anything, so the event loop serves one        *)
(* request at a time: only the event loop's thread takes steps, and the    *)
(* maintenance calls come between two requests.                            *)
(***************************************************************************)
Serial(t) == \A o \in Threads \ {t} : pc[o] = "idle"
AllIdle == \A t \in Threads : pc[t] = "idle"

Next ==
    \/ \E t \in Workers, q \in Queries : Serial(t) /\ run_chat(t, q)
    \/ \E t \in Workers : Serial(t) /\ classify_node(t)
    \/ \E t \in Workers : Serial(t) /\ ingest_node(t)
    \/ \E t \in Workers : Serial(t) /\ ingest_node_loop(t)
    \/ \E t \in Workers, u \in Urls, f \in BOOLEAN :
          Serial(t) /\ IngestUrlCall(t, u, f)
    \/ \E t \in Workers : Serial(t) /\ IngestCheck(t)
    \/ \E t \in Workers : Serial(t) /\ IngestFetch(t)
    \/ \E t \in Workers : Serial(t) /\ IngestStore(t)
    \/ \E t \in Workers : Serial(t) /\ rag_query_node(t)
    \/ \E t \in Workers : Serial(t) /\ rag_search(t)
    \/ \E t \in Workers : Serial(t) /\ rag_qa(t)
    \/ \E t \in Workers : Serial(t) /\ rag_refused(t)
    \/ \E t \in Workers : Serial(t) /\ rag_nodocs(t)
    \/ \E t \in Workers : Serial(t) /\ rag_except(t)
    \/ \E t \in Workers : Serial(t) /\ Return(t)
    \/ AllIdle /\ clear_ingestion_cache
    \/ AllIdle /\ reset_vectorstore

Spec == Init /\ [][Next]_vars

(***************************************************************************)
(* The requests as the HTTP layer serves them: the chat endpoint builds    *)
(* its response from what run_chat returned or raised.                     *)
(***************************************************************************)
NextHttp ==
    \/ Next
    \/ \E t \in Workers : Serial(t) /\ chat(t)

SpecHttp == Init /\ [][NextHttp]_vars

(***************************************************************************)
(* Callers on several threads.  ingest_url is a module-level function with *)
(* no lock around _ingested_urls: when the hosting layer runs its callers  *)
(* on worker threads, their steps interleave freely.  The calls are the    *)
(* non-forced ones of ingest_node, and the cache is not cleared while      *)
(* calls are running.                                                      *)
(***************************************************************************)
NextRace ==
    \/ \E t \in Threads, u \in Urls : IngestUrlCall(t, u, FALSE)
    \/ \E t \in Threads : IngestCheck(t)
    \/ \E t \in Threads : IngestFetch(t)
    \/ \E t \in Threads : IngestStore(t)
    \/ \E t \in Threads : Return(t)

SpecRace == Init /\ [][NextRace]_vars

(***************************************************************************)
(* The callers of get_vectorstore.  health is a plain function, which the  *)
(* server runs on the threads of its pool, so health requests interleave   *)
(* with each other and with the ingestion the event loop is running; the   *)
(* handle is reset between requests.                                       *)
(***************************************************************************)
NextHandle ==
    \/ \E t \in Threads : health(t)
    \/ \E t \in Threads : get_vectorstore_check(t)
    \/ \E t \in Threads : get_vectorstore_build(t)
    \/ \E t \in Workers, u \in Urls, f \in BOOLEAN : IngestUrlCall(t, u, f)
    \/ \E t \in Workers : IngestCheck(t)
    \/ \E t \in Workers : IngestFetch(t)
    \/ \E t \in Workers : IngestStore(t)
    \/ \E t \in Threads : Return(t)
    \/ AllIdle /\ reset_vectorstore

SpecHandle == Init /\ [][NextHandle]_vars

(***************************************************************************)
(* extract_urls alone: classify_node applies it to the query of a request, *)
(* whatever text the query is.                                             *)
(***************************************************************************)
NextExtract ==
    \/ \E t \in Workers, q \in Texts : run_chat(t, q)
    \/ \E t \in Workers : classify_node(t)

SpecExtract == Init /\ [][NextExtract]_vars

(***************************************************************************)
(* Vocabulary of the properties.                                           *)
(***************************************************************************)
Chat(t) == op[t] = "run_chat"
Returned(t) == pc[t] = "done"
Raised(t) == pc[t] = "raised"

\* The answers of Answers that hold a refusal phrase, letter case ignored.
RefusalAnswers == { <<"I", "Cannot", "find", "it">> }

\* The request's answer is what the last language-model call returned, and
\* that call was the general completion of the query as it was given.
AnswerIsUngrounded(t) ==
    /\ llmlog[t] # <<>>
    /\ LET c == llmlog[t][Len(llmlog[t])] IN
         /\ c.ok
         /\ c.kind = "ungrounded"
         /\ c.question = st[t].query
         /\ c.context = <<>>
         /\ st[t].answer = c.text

\* The search of the request succeeded and returned no document nearer
\* than the threshold.
NoHitBelowThreshold(t) ==
    /\ obs[t].search = "ok"
    /\ \A j \in DOMAIN obs[t].hits : obs[t].hits[j].score >= RELEVANCE_THRESHOLD

\* The sources of the returned documents that are nearer than the threshold.
PassingSources(t) ==
    { obs[t].hits[j].doc.source :
        j \in { k \in DOMAIN obs[t].hits :
                  obs[t].hits[k].score < RELEVANCE_THRESHOLD } }

IngestErrors == {"fetch_error", "processing_error"}

\* An ingest_url call ends in this step.
IngestEnds == \E t \in Threads : frame[t].caller # "none" /\ frame'[t].caller = "none"

AttemptUrls(t) == [k \in 1..Len(attempts[t]) |-> attempts[t][k].url]

(***************************************************************************)
(* C1: when the search returns no chunk with a distance below the          *)
(* threshold (the empty index included), the result of run_chat has        *)
(* used_rag = false, no sources, and the ungrounded completion of the raw  *)
(* query as its answer; no grounded completion was asked for.              *)
(***************************************************************************)
C1_NoRelevantChunkUngrounded ==
    \A t \in Threads :
        (Chat(t) /\ Returned(t) /\ NoHitBelowThreshold(t)) =>
            /\ st[t].used_rag = FALSE
            /\ st[t].sources = {}
            /\ AnswerIsUngrounded(t)
            /\ \A k \in DOMAIN llmlog[t] : llmlog[t][k].kind = "ungrounded"

C1_Witness ==
    \E t \in Threads :
        /\ Chat(t) /\ Returned(t) /\ NoHitBelowThreshold(t)
        /\ obs[t].hits # <<>>
        /\ \E j \in DOMAIN obs[t].hits : obs[t].hits[j].score = RELEVANCE_THRESHOLD

(***************************************************************************)
(* C2: when a retrieved chunk is below the threshold and the grounded      *)
(* answer holds no refusal phrase, the result has used_rag = true and its  *)
(* sources are exactly the source URLs of the chunks that passed the       *)
(* relevance filter.                                                       *)
(***************************************************************************)
C2_SourcesAreThePassingChunks ==
    \A t \in Threads :
        (/\ Chat(t) /\ Returned(t)
         /\ PassingSources(t) # {}
         /\ obs[t].grounded
         /\ obs[t].candidate \notin RefusalAnswers) =>
            /\ st[t].used_rag = TRUE
            /\ st[t].sources = PassingSources(t)

(***************************************************************************)
(* C3: a grounded candidate answer that holds a refusal phrase, letter     *)
(* case ignored, is discarded: the result has used_rag = false, no         *)
(* sources and the ungrounded completion of the raw query as its answer,   *)
(* although a chunk passed the relevance filter.                           *)
(***************************************************************************)
C3_RefusalFallsBack ==
    \A t \in Threads :
        (Chat(t) /\ Returned(t) /\ obs[t].grounded
                 /\ obs[t].candidate \in RefusalAnswers) =>
            /\ PassingSources(t) # {}
            /\ st[t].used_rag = FALSE
            /\ st[t].sources = {}
            /\ AnswerIsUngrounded(t)

C3_Witness ==
    \E t \in Threads :
        /\ Chat(t) /\ Returned(t) /\ obs[t].grounded
        /\ obs[t].candidate \in RefusalAnswers
        /\ PassingSources(t) # {}
        /\ st[t].used_rag = FALSE

(***************************************************************************)
(* C4: a failure of the similarity search is not what leaves run_chat:     *)
(* the request goes on to the ungrounded completion, and when it returns   *)
(* the result has that completion as answer, used_rag = false, no sources. *)
(***************************************************************************)
C4_SearchFailureDegrades ==
    \A t \in Threads :
        (Chat(t) /\ obs[t].search = "fail") =>
            /\ pc[t] \in {"rag_except", "done", "raised"}
            /\ err[t] # "search_error"
            /\ Raised(t) =>
                  /\ err[t] = "llm_error"
                  /\ ~llmlog[t][Len(llmlog[t])].ok
            /\ Returned(t) =>
                  /\ st[t].used_rag = FALSE
                  /\ st[t].sources = {}
                  /\ AnswerIsUngrounded(t)

C4_Witness ==
    \E t \in Threads :
        /\ Chat(t) /\ obs[t].search = "fail" /\ Returned(t)
        /\ st[t].answer \in Answers

(***************************************************************************)
(* C5 as stated: whatever fails inside (a page fetch or its processing,    *)
(* the similarity search, a completion of the language model), run_chat    *)
(* returns a result for a well-formed query and does not raise.            *)
(***************************************************************************)
C5_NoInternalFailureRaises ==
    \A t \in Threads :
        (Chat(t) /\ Raised(t)) =>
            err[t] \notin IngestErrors \cup {"search_error", "llm_error"}

(***************************************************************************)
(* C5 amended: run_chat absorbs every ingestion failure, every failure of  *)
(* the similarity search and every failure of the grounded completion; it  *)
(* raises only when the language-model or vector-store handle cannot be    *)
(* built at the start of rag_answer, or when the ungrounded completion of  *)
(* the last fallback fails.                                                *)
(***************************************************************************)
C5_OnlyLastFallbackRaises ==
    \A t \in Threads :
        Chat(t) =>
            /\ err[t] \notin IngestErrors \cup {"search_error"}
            /\ Raised(t) =>
                  err[t] \in {"llm_init_error", "vectorstore_init_error", "llm_error"}
            /\ err[t] = "llm_error" =>
                  /\ Raised(t)
                  /\ llmlog[t] # <<>>
                  /\ llmlog[t][Len(llmlog[t])].kind = "ungrounded"
                  /\ ~llmlog[t][Len(llmlog[t])].ok
            /\ err[t] \in {"llm_init_error", "vectorstore_init_error"} =>
                  /\ Raised(t)
                  /\ obs[t].search = "none"
                  /\ llmlog[t] = <<>>

C5_Witness ==
    \E t \in Threads :
        /\ Chat(t) /\ Returned(t)
        /\ \E k \in DOMAIN attempts[t] : attempts[t][k].outcome \in IngestErrors
        /\ \E k \in DOMAIN llmlog[t] :
              llmlog[t][k].kind = "grounded" /\ ~llmlog[t][k].ok
        /\ AnswerIsUngrounded(t)

(***************************************************************************)
(* C6 as stated: of two ingest_url calls for the same URL in sequence,     *)
(* both with force = false and with no cache clear in between, exactly one *)
(* fetches, and the second returns no chunk, fetches nothing and inserts   *)
(* nothing.                                                                *)
(***************************************************************************)
SameUrlTwice ==
    /\ IngestEnds
    /\ last.valid /\ last'.valid
    /\ last.url = last'.url
    /\ ~last.force /\ ~last'.force

C6_TwiceFetchesOnce ==
    [][SameUrlTwice =>
          /\ last.fetched # last'.fetched
          /\ ~last'.fetched
          /\ last'.result = <<>>
          /\ last'.inserted = 0]_vars

(***************************************************************************)
(* C6 amended: when a non-forced ingest_url call of a URL has fetched the  *)
(* page and succeeded, the next ingest_url call, if it is for the same URL *)
(* with force = false and no cache clear came in between, returns no       *)
(* chunk, fetches nothing and inserts nothing: one fetch for the two.      *)
(***************************************************************************)
C6_SecondAfterSuccessSkips ==
    [][(SameUrlTwice /\ last.outcome = "ok") =>
          /\ last.fetched
          /\ ~last'.fetched
          /\ last'.outcome = "skip"
          /\ last'.result = <<>>
          /\ last'.inserted = 0
          /\ index' = index]_vars

C6_Witness ==
    \E t \in Threads :
        /\ Len(attempts[t]) = 2
        /\ attempts[t][1].url = attempts[t][2].url
        /\ attempts[t][1].outcome = "ok"
        /\ attempts[t][2].outcome = "skip"
        /\ last.valid /\ last.outcome = "skip" /\ ~last.fetched

(***************************************************************************)
(* C7: an ingest_url call with force = true fetches the URL, also when the *)
(* hash of the URL is already in the Ingested-URL Set.                     *)
(***************************************************************************)
C7_ForceAlwaysFetches ==
    /\ (last.valid /\ last.force) => (last.fetched /\ last.outcome # "skip")
    /\ \A t \in Threads :
          (frame[t].caller # "none" /\ frame[t].force) =>
              pc[t] = "ing_check" \/ frame[t].fetched \/ pc[t] = "ing_fetch"

C7_Witness ==
    last.valid /\ last.force /\ last.wasIn /\ last.fetched

(***************************************************************************)
(* C8: a fetched page whose text is shorter than 50 characters ends        *)
(* ingest_url in an ingestion error, with nothing inserted into the vector *)
(* index and the Ingested-URL Set as it was.                               *)
(***************************************************************************)
C8_ShortPageRejected ==
    (last.valid /\ last.fetched /\ last.resp.ok /\ last.resp.len < 50) =>
        /\ last.outcome = "processing_error"
        /\ last.result = <<>>
        /\ last.inserted = 0
        /\ last.cacheSame

C8_Witness ==
    /\ last.valid /\ last.fetched /\ last.resp.ok /\ last.resp.len = 49
    /\ last.outcome = "processing_error"

(***************************************************************************)
(* C9: the ingest stage calls ingest_url(url, force = false) for every URL *)
(* of state.urls, in order; a failed call is caught, the later URLs are    *)
(* still attempted, nothing is raised, and rag_answer comes next.          *)
(***************************************************************************)
InTrace(t, node) == \E k \in DOMAIN trace[t] : trace[t][k] = node

C9_EveryUrlAttempted ==
    \A t \in Threads :
        Chat(t) =>
            /\ \A k \in DOMAIN attempts[t] :
                  /\ k <= Len(st[t].urls)
                  /\ attempts[t][k].url = st[t].urls[k]
                  /\ ~attempts[t][k].force
            /\ pc[t] = "ingest_loop" => Len(attempts[t]) = idx[t] - 1
            /\ pc[t] \in {"ing_check", "ing_fetch", "ing_store"} =>
                  /\ Len(attempts[t]) = idx[t] - 1
                  /\ idx[t] <= Len(st[t].urls)
                  /\ frame[t].url = st[t].urls[idx[t]]
                  /\ ~frame[t].force
            /\ (InTrace(t, "ingest") /\ InTrace(t, "rag_query")) =>
                  Len(attempts[t]) = Len(st[t].urls)
            /\ (InTrace(t, "ingest") /\ pc[t] \in {"done", "raised"}) =>
                  InTrace(t, "rag_query")
            /\ err[t] \notin IngestErrors

C9_Witness ==
    \E t \in Threads :
        /\ Chat(t) /\ InTrace(t, "rag_query")
        /\ Len(attempts[t]) = 2
        /\ attempts[t][1].outcome \in IngestErrors
        /\ attempts[t][2].outcome = "ok"

(***************************************************************************)
(* C10: a request runs classify once and first, then ingest exactly when   *)
(* classify extracted at least one URL, then rag_answer once; rag_answer   *)
(* is the last stage and its state record is the result.                   *)
(***************************************************************************)
StagesBeforeAnswer(t) ==
    IF st[t].urls # <<>> THEN <<"classify", "ingest">> ELSE <<"classify">>

C10_StageOrder ==
    \A t \in Threads :
        Chat(t) =>
            /\ pc[t] = "classify" => trace[t] = <<>>
            /\ pc[t] = "ingest" =>
                  trace[t] = <<"classify">> /\ st[t].urls # <<>>
            /\ pc[t] \in {"ingest_loop", "ing_check", "ing_fetch", "ing_store"} =>
                  trace[t] = <<"classify", "ingest">> /\ st[t].urls # <<>>
            /\ pc[t] = "rag_query" => trace[t] = StagesBeforeAnswer(t)
            /\ pc[t] \in {"rag_search", "rag_qa", "rag_refused", "rag_nodocs",
                          "rag_except", "done", "raised"} =>
                  trace[t] = Append(StagesBeforeAnswer(t), "rag_query")
            /\ st[t].urls = extract_urls(st[t].query) \/ pc[t] = "classify"

C10_Witness ==
    \E t \in Threads :
        /\ Chat(t) /\ Returned(t)
        /\ trace[t] = <<"classify", "ingest", "rag_query">>
(***************************************************************************)
(* C11: when the answer step of a request starts, no ingest_url call of    *)
(* the request is still running, and every chunk of every URL whose        *)
(* ingestion succeeded is in the vector index; the similarity search of    *)
(* the request scores the whole index as it is then and finds those        *)
(* chunks.                                                                 *)
(***************************************************************************)
AnswerStep ==
    {"rag_query", "rag_search", "rag_qa", "rag_refused", "rag_nodocs",
     "rag_except", "done", "raised"}

InIndex(doc) == \E p \in DOMAIN index : index[p] = doc

AmongHits(t, doc) == \E j \in DOMAIN obs[t].hits : obs[t].hits[j].doc = doc

C11_IngestCompletesBeforeAnswer ==
    \A t \in Threads :
        (Chat(t) /\ pc[t] \in AnswerStep) =>
            /\ frame[t] = NoFrame
            /\ \A k \in DOMAIN attempts[t] :
                  attempts[t][k].outcome = "ok" =>
                     /\ attempts[t][k].chunks >= 1
                     /\ get_url_hash(attempts[t][k].url) \in ingested
                     /\ \A j \in 1..attempts[t][k].chunks :
                           LET doc == MakeDocs(attempts[t][k].url,
                                               attempts[t][k].chunks)[j] IN
                           /\ InIndex(doc)
                           /\ obs[t].search = "ok" => AmongHits(t, doc)
            /\ obs[t].search = "ok" =>
                  /\ DOMAIN obs[t].scores = DOMAIN index
                  /\ Len(obs[t].hits) = Min(SEARCH_K, Len(index))

C11_Witness ==
    \E t \in Threads :
        /\ Chat(t) /\ obs[t].search = "ok"
        /\ \E k \in DOMAIN attempts[t] :
              attempts[t][k].outcome = "ok" /\ attempts[t][k].chunks = 2
        /\ Len(obs[t].hits) = 2

(***************************************************************************)
(* C12: two threads call ingest_url for the same URL with force = false    *)
(* while its hash is not in the Ingested-URL Set.  A call whose hash was   *)
(* in the set when it began is skipped, so two such calls both succeed     *)
(* only when each began before the other recorded the hash; then both      *)
(* passed the membership test, both fetched and both inserted: the index   *)
(* holds the chunks of the two calls and the set holds the hash once.      *)
(* The witness is the interleaving in which this happens.                  *)
(***************************************************************************)
RECURSIVE CountSource(_, _)
CountSource(coll, url) ==
    IF coll = <<>> THEN 0
    ELSE (IF Head(coll).source = url THEN 1 ELSE 0) + CountSource(Tail(coll), url)

\* The ingest_url call thread t has just ended, <<>> when there is none.
EndedCall(t) ==
    IF op[t] = "ingest_url" /\ Len(attempts[t]) = 1 THEN <<attempts[t][1]>> ELSE <<>>

BothInserted(t, o) ==
    /\ t # o
    /\ EndedCall(t) # <<>> /\ EndedCall(o) # <<>>
    /\ EndedCall(t)[1].url = EndedCall(o)[1].url
    /\ ~EndedCall(t)[1].force /\ ~EndedCall(o)[1].force
    /\ EndedCall(t)[1].outcome = "ok" /\ EndedCall(o)[1].outcome = "ok"

C12_BothPassTheCheck ==
    /\ \A t \in Threads :
          (EndedCall(t) # <<>> /\ ~EndedCall(t)[1].force /\ EndedCall(t)[1].wasIn) =>
              EndedCall(t)[1].outcome = "skip" /\ EndedCall(t)[1].chunks = 0
    /\ \A t \in Threads, o \in Threads :
          BothInserted(t, o) =>
              /\ ~EndedCall(t)[1].wasIn /\ ~EndedCall(o)[1].wasIn
              /\ CountSource(index, EndedCall(t)[1].url)
                    >= EndedCall(t)[1].chunks + EndedCall(o)[1].chunks
              /\ get_url_hash(EndedCall(t)[1].url) \in ingested

C12_Witness ==
    /\ BothInserted("t1", "t2")
    /\ EndedCall("t1")[1].url = U1
    /\ index = MakeDocs(U1, 1) \o MakeDocs(U1, 1)
    /\ ingested = {get_url_hash(U1)}

(***************************************************************************)
(* C13: for every text, extract_urls returns only URLs whose parse has     *)
(* scheme http or https and a non-empty host; it returns the URL of every  *)
(* token that holds such a URL, in the order of the tokens, a URL that     *)
(* occurs twice being returned twice; the empty text yields no URL.        *)
(***************************************************************************)
\* The token holds "http://" or "https://" followed by a URL with a host.
HoldsUrlWithHost(tok) ==
    /\ tok.scheme \in {"http", "https"}
    /\ tok.host \notin BadNetlocs \cup {"", ":80"}

UrlTokens(text) == { p \in DOMAIN text : HoldsUrlWithHost(text[p]) }

\* `out` lists the URLs of the tokens at the positions S of `text`, in the
\* order of the positions.
ListsInOrder(out, text, S) ==
    /\ Len(out) = Cardinality(S)
    /\ \E f \in [DOMAIN out -> S] :
          /\ \A j \in DOMAIN out, k \in DOMAIN out : j < k => f[j] < f[k]
          /\ \A j \in DOMAIN out :
                out[j] = Url(text[f[j]].scheme, text[f[j]].host, text[f[j]].path)

Classified(t) == Chat(t) /\ pc[t] \notin {"idle", "classify"}

C13_OnlyUrlsWithHost ==
    \A t \in Threads :
        Classified(t) =>
            /\ \A k \in DOMAIN st[t].urls :
                  /\ ~urlparse_raises(st[t].urls[k])
                  /\ urlparse(st[t].urls[k]).scheme \in {"http", "https"}
                  /\ urlparse(st[t].urls[k]).hostname # ""
            /\ ListsInOrder(st[t].urls, st[t].query, UrlTokens(st[t].query))
            /\ st[t].query = <<>> => st[t].urls = <<>>

(***************************************************************************)
(* C14: the context of every grounded completion of a request consists of  *)
(* exactly the chunks of its search whose distance is below the threshold; *)
(* no chunk at or above the threshold is part of it.                       *)
(***************************************************************************)
PassingChunks(t) ==
    { obs[t].hits[j].doc :
        j \in { k \in DOMAIN obs[t].hits :
                  obs[t].hits[k].score < RELEVANCE_THRESHOLD } }

ContextChunks(call) == { call.context[j] : j \in DOMAIN call.context }

C14_ContextIsThePassingChunks ==
    \A t \in Threads :
        Chat(t) =>
            \A k \in DOMAIN llmlog[t] :
                llmlog[t][k].kind = "grounded" =>
                    /\ PassingChunks(t) # {}
                    /\ ContextChunks(llmlog[t][k]) = PassingChunks(t)

(***************************************************************************)
(* C15: a chunk returned by the search passes the relevance gate exactly   *)
(* when its distance is strictly below the threshold; a request whose      *)
(* nearest chunk is at the threshold exactly asks for no grounded          *)
(* completion and returns with used_rag = false.                           *)
(***************************************************************************)
Passed(t, hit) == \E k \in DOMAIN obs[t].relevant : obs[t].relevant[k] = hit

BestAtThreshold(t) ==
    /\ obs[t].search = "ok"
    /\ obs[t].hits # <<>>
    /\ obs[t].hits[1].score = RELEVANCE_THRESHOLD

C15_GateIsStrict ==
    \A t \in Threads :
        (Chat(t) /\ obs[t].search = "ok") =>
            /\ \A j \in DOMAIN obs[t].hits :
                  Passed(t, obs[t].hits[j]) <=>
                      obs[t].hits[j].score < RELEVANCE_THRESHOLD
            /\ \A j \in DOMAIN obs[t].hits :
                  j > 1 => obs[t].hits[j - 1].score <= obs[t].hits[j].score
            /\ BestAtThreshold(t) =>
                  /\ obs[t].relevant = <<>>
                  /\ pc[t] \in {"rag_nodocs", "rag_except", "done", "raised"}
                  /\ \A k \in DOMAIN llmlog[t] : llmlog[t][k].kind = "ungrounded"
                  /\ Returned(t) => st[t].used_rag = FALSE

C15_Witness ==
    \E t \in Threads :
        /\ Chat(t) /\ Returned(t) /\ BestAtThreshold(t)
        /\ Len(obs[t].hits) = 2
        /\ st[t].used_rag = FALSE
        /\ st[t].answer \in Answers

(***************************************************************************)
(* C16: a hash is in the Ingested-URL Set only if chunks of its URL are in *)
(* the vector index; the set grows only in the step in which an ingest_url *)
(* call ends successfully, by the hash of that call's URL, whose chunks    *)
(* the call has inserted; a call that ends in an error leaves the set as   *)
(* it was, and the next non-forced call for a URL that was not in the set  *)
(* fetches it again.                                                       *)
(***************************************************************************)
MarkedOnlyWithChunks ==
    \A u \in Urls : get_url_hash(u) \in ingested => CountSource(index, u) >= 1

SetChangesOnlyOnSuccess ==
    /\ ingested' # ingested =>
          \/ ingested' = {}
          \/ /\ IngestEnds
             /\ last'.outcome = "ok"
             /\ ingested' = ingested \cup {get_url_hash(last'.url)}
             /\ last'.result # <<>>
             /\ last'.inserted = Len(last'.result)
             /\ index' = index \o last'.result
    /\ (IngestEnds /\ last'.outcome \in IngestErrors) =>
          /\ ingested' = ingested
          /\ last'.cacheSame
    /\ (/\ IngestEnds
        /\ last.valid /\ last.outcome \in IngestErrors /\ ~last.wasIn
        /\ last'.url = last.url /\ ~last'.force) =>
          last'.fetched

C16_SetUpdatedOnlyOnSuccess ==
    []MarkedOnlyWithChunks /\ [][SetChangesOnlyOnSuccess]_vars

C16_Witness ==
    \E t \in Threads :
        /\ Len(attempts[t]) = 2
        /\ attempts[t][1].url = attempts[t][2].url
        /\ attempts[t][1].outcome \in IngestErrors
        /\ attempts[t][2].outcome = "ok"
        /\ get_url_hash(attempts[t][2].url) \in ingested
        /\ last.valid /\ last.fetched /\ ~last.cacheSame

(***************************************************************************)
(* C17: the response of the chat endpoint to a successful request has the  *)
(* answer, the sources and the used_rag of the state run_chat returned.    *)
(***************************************************************************)
C17_ResponseRendersResult ==
    \A t \in Threads :
        response[t].status = "success" =>
            /\ Chat(t) /\ Returned(t)
            /\ response[t].answer = st[t].answer
            /\ response[t].sources = st[t].sources
            /\ response[t].used_rag = st[t].used_rag

(***************************************************************************)
(* C18: the process never has more than one vector-store handle: none      *)
(* until the first get_vectorstore call has built it, and from then on the *)
(* one the global holds, whatever the interleaving of the callers.         *)
(***************************************************************************)
C18_OneHandle ==
    /\ handles <= 1
    /\ handles = 1 <=> instance = "Chroma"

(***************************************************************************)
(* C19: in every result run_chat returns, used_rag = false comes with no   *)
(* sources, and used_rag = true comes only after a successful search that  *)
(* returned a chunk below the threshold, with the answer being the         *)
(* grounded candidate, which the last language-model call produced.        *)
(***************************************************************************)
AnswerIsGrounded(t) ==
    /\ obs[t].grounded
    /\ st[t].answer = obs[t].candidate
    /\ llmlog[t] # <<>>
    /\ LET c == llmlog[t][Len(llmlog[t])] IN
         c.ok /\ c.kind = "grounded" /\ c.text = st[t].answer

C19_UsedRagConsistent ==
    \A t \in Threads :
        (Chat(t) /\ Returned(t)) =>
            /\ st[t].used_rag = FALSE =>
                  /\ st[t].sources = {}
                  /\ AnswerIsUngrounded(t)
            /\ st[t].used_rag = TRUE =>
                  /\ obs[t].search = "ok"
                  /\ \E j \in DOMAIN obs[t].hits :
                        obs[t].hits[j].score < RELEVANCE_THRESHOLD
                  /\ AnswerIsGrounded(t)
                  /\ ~AnswerIsUngrounded(t)

C19_Witness ==
    \E t \in Threads :
        /\ Chat(t) /\ Returned(t)
        /\ st[t].used_rag = TRUE
        /\ st[t].sources # {}
        /\ Len(obs[t].hits) = 2
        /\ obs[t].hits[2].score > RELEVANCE_THRESHOLD
=============================================================================
